---------------------------- MODULE Spec2Model ----------------------------
(***************************************************************************)
(* Model of django_iam_dbauth/aws/database_wrapper.py: the resolver        *)
(* get_aws_connection_params, the lock-guarded TokenCache, the             *)
(* thread-local boto3 session and the lru_cache'd RDS client provider.     *)
(*                                                                         *)
(* Threads interleave between the steps below.  A step is atomic where the *)
(* code touches only the calling thread's locals, or one shared object in  *)
(* one bytecode-level operation (a dict lookup, a dict store, a lock       *)
(* acquire or release).                                                    *)
(***************************************************************************)
EXTENDS Integers, Sequences, FiniteSets, TLC

(***************************************************************************)
(* Bounds of the model.                                                    *)
(***************************************************************************)
NumThreads == 2
MaxCalls == 2
MaxTicks == 2

(***************************************************************************)
(* Program constants.                                                      *)
(***************************************************************************)
TOKEN_EXPIRATION_TIME == 10 * 60
SAFETY_BUFFER == 30
LRU_MAXSIZE == 32
DEFAULT_PORT == 5432

Threads == 1..NumThreads
NoThread == 0

(***************************************************************************)
(* Python values.  Every value carries its type, so that "", 0, False and  *)
(* None stay distinct values that are all falsy.                           *)
(***************************************************************************)
PyStr(s) == [ty |-> "str", s |-> s, n |-> 0]
PyInt(n) == [ty |-> "int", s |-> "", n |-> n]
PyBool(b) == [ty |-> "bool", s |-> "", n |-> IF b THEN 1 ELSE 0]
PyNone == [ty |-> "NoneType", s |-> "", n |-> 0]

\* bool(v) of a Python value, as the `if not enabled`, `if cached_token` and
\* `x or y` tests compute it.
Truthy(v) ==
    CASE v.ty = "str" -> v.s # ""
      [] v.ty = "int" -> v.n # 0
      [] v.ty = "bool" -> v.n # 0
      [] OTHER -> FALSE

(***************************************************************************)
(* Python dicts with string keys: functions on a finite set of keys.       *)
(***************************************************************************)
EmptyDict == [k \in {} |-> PyNone]
DictGet(d, k, default) == IF k \in DOMAIN d THEN d[k] ELSE default
DictWithout(d, k) == [x \in DOMAIN d \ {k} |-> d[x]]
DictWith(d, k, v) == [x \in DOMAIN d \cup {k} |-> IF x = k THEN v ELSE d[x]]

\* getpass.getuser(): the login name of the process's user.
OS_USER == PyStr("osuser")
DEFAULT_HOST == PyStr("localhost")

(***************************************************************************)
(* The resolver's derivations (get_aws_connection_params, lines 54-66).    *)
(***************************************************************************)
\* params.pop("use_iam_auth", None)
EnabledFlag(p) == DictGet(p, "use_iam_auth", PyNone)

PassthroughStripRegion(p) ==
    DictWithout(DictWithout(p, "use_iam_auth"), "region_name")
\* The mapping returned when the flag is falsy: the copy minus the flag.
Passthrough(p) == DictWithout(p, "use_iam_auth")

\* params.pop("region_name", None), applied to the copy without the flag.
RegionName(p) == DictGet(DictWithout(p, "use_iam_auth"), "region_name", PyNone)

StrippedKeepRegion(p) == DictWithout(p, "use_iam_auth")
\* The copy after both pops.
Stripped(p) == DictWithout(DictWithout(p, "use_iam_auth"), "region_name")

\* params.get("host", "localhost")
Hostname(p) == DictGet(Stripped(p), "host", DEFAULT_HOST)

\* params.get("port", 5432)
Port(p) == DictGet(Stripped(p), "port", PyInt(DEFAULT_PORT))

UsernameIfPresent(p) == DictGet(Stripped(p), "user", OS_USER)
\* params.get("user") or getpass.getuser()
Username(p) ==
    LET u == DictGet(Stripped(p), "user", PyNone)
    IN  IF Truthy(u) THEN u ELSE OS_USER

CacheKeyNoPort(hostname, port, username, region_name) ==
    <<hostname, PyNone, username, region_name>>
\* cache_key = (hostname, port, username, region_name)
CacheKey(hostname, port, username, region_name) ==
    <<hostname, port, username, region_name>>

NoKey == <<PyNone, PyNone, PyNone, PyNone>>

(***************************************************************************)
(* TokenCache (lines 26-44): the mapping key -> (token, expiration).  An   *)
(* entry also records, as history, the identity its token was generated    *)
(* for.                                                                    *)
(***************************************************************************)
NoEntry == [token |-> PyNone, expiration |-> 0, ident |-> NoKey]

StillValidLe(clock, expiration) == clock <= expiration
\* time.time() < expiration
StillValid(clock, expiration) == clock < expiration

ExpirationAtNoLifetime(clock) == clock
ExpirationAtFullLifetime(clock) == clock + TOKEN_EXPIRATION_TIME
\* time.time() + TOKEN_EXPIRATION_TIME - 30
ExpirationAt(clock) == clock + TOKEN_EXPIRATION_TIME - SAFETY_BUFFER

CachePutIfAbsent(c, k, e) ==
    [x \in DOMAIN c \cup {k} |-> IF x \in DOMAIN c THEN c[x] ELSE e]
\* self._cache[key] = entry
CachePut(c, k, e) == [x \in DOMAIN c \cup {k} |-> IF x = k THEN e ELSE c[x]]

CacheDelNothing(c, k) == c
\* del self._cache[key]
CacheDel(c, k) == [x \in DOMAIN c \ {k} |-> c[x]]

(***************************************************************************)
(* The thread-local session and the lru_cache of _get_rds_client           *)
(* (lines 8-24).  A session records the thread that constructed it and the *)
(* region it was constructed with; a client records the session it was     *)
(* created from and its own region.  The lru_cache is one process-wide     *)
(* list of (argument, result) pairs, most recently used first.             *)
(***************************************************************************)
NoSession == [owner |-> NoThread, region |-> PyNone]
NoClient == [session |-> NoSession, region |-> PyNone]

LruIndex(l, k) == {i \in 1..Len(l) : l[i].key = k}
LruHas(l, k) == LruIndex(l, k) # {}
LruClient(l, k) == l[CHOOSE i \in LruIndex(l, k) : TRUE].client
LruTouch(l, k) ==
    LET i == CHOOSE j \in LruIndex(l, k) : TRUE
    IN  <<l[i]>> \o SubSeq(l, 1, i - 1) \o SubSeq(l, i + 1, Len(l))
LruInsert(l, k, c) ==
    LET l2 == <<[key |-> k, client |-> c]>> \o l
    IN  IF Len(l2) > LRU_MAXSIZE THEN SubSeq(l2, 1, LRU_MAXSIZE) ELSE l2

(***************************************************************************)
(* State.                                                                  *)
(***************************************************************************)
VARIABLES
    now,      \* time.time(), in seconds
    ticks,    \* how many times the clock has advanced
    cache,    \* _token_cache._cache
    lock,     \* _token_cache._lock: the thread holding it, or NoThread
    lru,      \* the lru_cache of _get_rds_client
    session,  \* _thread_local.session, per thread
    pc,       \* each thread's position
    loc,      \* each thread's locals of the call in progress or last ended
    calls,    \* how many calls of the resolver have started
    lastWrite, \* history: the latest write of set_token
    genAt,    \* history: when generate_db_auth_token returned to each thread
    bornAt    \* history: when the token of each cache entry was generated

vars == <<now, ticks, cache, lock, lru, session, pc, loc, calls, lastWrite,
          genAt, bornAt>>

NoWrite == [thread |-> NoThread, key |-> NoKey, entry |-> NoEntry]

InitLoc ==
    [arg |-> EmptyDict, params |-> EmptyDict, enabled |-> PyNone,
     region_name |-> PyNone, hostname |-> PyNone, port |-> PyNone,
     username |-> PyNone, cache_key |-> NoKey,
     found |-> FALSE, entry |-> NoEntry, clock |-> 0, result |-> PyNone,
     cached_token |-> PyNone, rds_client |-> NoClient,
     token |-> PyNone, ret |-> EmptyDict, err |-> "",
     \* history of the call: what the cache lookup found ("none" before it,
     \* then "absent", "expired" or "valid"), the token seen in a valid
     \* entry, the expired entry, the arguments of the generation call, and
     \* how often the call entered get_token, _get_rds_client and
     \* generate_db_auth_token
     lookup |-> "none", seen |-> PyNone, old |-> NoEntry,
     gen_args |-> <<PyNone, PyNone, PyNone>>,
     lookups |-> 0, provider |-> 0, gens |-> 0,
     \* how often the call wrote the token cache, and the mapping object
     \* the caller passed, as the caller sees it
     stores |-> 0, caller |-> EmptyDict]

Init ==
    /\ now = 0
    /\ ticks = 0
    /\ cache = [k \in {} |-> NoEntry]
    /\ lock = NoThread
    /\ lru = << >>
    /\ session = [t \in Threads |-> NoSession]
    /\ pc = [t \in Threads |-> "idle"]
    /\ loc = [t \in Threads |-> InitLoc]
    /\ calls = 0
    /\ lastWrite = NoWrite
    /\ genAt = [t \in Threads |-> 0]
    /\ bornAt = [k \in {} |-> 0]

Goto(t, label) == pc' = [pc EXCEPT ![t] = label]

\* The resolver's frame ends, and its client handle with it.
EndCall(l) == [l EXCEPT !.rds_client = NoClient]

\* An exception leaves get_aws_connection_params.
Raise(t, kind) ==
    /\ Goto(t, "raised")
    /\ loc' = [loc EXCEPT ![t] = [EndCall(loc[t]) EXCEPT !.err = kind]]

LockFreeAlways == TRUE
\* with self._lock: the lock can be taken when no thread holds it.
LockFree == lock = NoThread

ReleasedNever(t) == lock
\* Leaving a with self._lock block releases the lock.
Released(t) == IF lock = t THEN NoThread ELSE lock

CallerSeesAlias(caller, params) == params
\* line 54: params = params.copy().  The pops and the assignment of the
\* password act on the copy, so the caller's mapping stays as it is,
\* whatever the copy becomes.
CallerSees(caller, params) == caller

(***************************************************************************)
(* get_aws_connection_params, lines 54-66: copy, pop the flag, return the  *)
(* copy when it is falsy, else pop the region and derive the cache key.    *)
(* Threads are interchangeable, so they make their first calls in the      *)
(* order of their numbers.                                                 *)
(***************************************************************************)
Call(t, p) ==
    /\ pc[t] \in {"idle", "returned", "raised"}
    /\ calls < MaxCalls
    /\ \A u \in Threads : u < t => pc[u] # "idle"
    /\ calls' = calls + 1
    /\ IF ~Truthy(EnabledFlag(p))
       THEN /\ loc' = [loc EXCEPT ![t] =
                  [InitLoc EXCEPT !.arg = p, !.params = Passthrough(p),
                                  !.caller = CallerSees(p, Passthrough(p)),
                                  !.enabled = EnabledFlag(p),
                                  !.ret = Passthrough(p)]]
            /\ Goto(t, "returned")
       ELSE /\ loc' = [loc EXCEPT ![t] =
                  [InitLoc EXCEPT !.arg = p, !.params = Stripped(p),
                                  !.caller = CallerSees(p, Stripped(p)),
                                  !.enabled = EnabledFlag(p),
                                  !.region_name = RegionName(p),
                                  !.hostname = Hostname(p),
                                  !.port = Port(p),
                                  !.username = Username(p),
                                  !.cache_key = CacheKey(Hostname(p), Port(p),
                                                    Username(p), RegionName(p))]]
            /\ Goto(t, "gt_lock")
    /\ UNCHANGED <<now, ticks, cache, lock, lru, session, lastWrite>>

(***************************************************************************)
(* TokenCache.get_token, lines 31-39.                                      *)
(***************************************************************************)
\* line 33: with self._lock
GetLock(t) ==
    /\ pc[t] = "gt_lock"
    /\ LockFree
    /\ lock' = t
    /\ loc' = [loc EXCEPT ![t].lookups = @ + 1]
    /\ Goto(t, "gt_check")
    /\ UNCHANGED <<now, ticks, cache, lru, session, calls, lastWrite>>

\* lines 34-37: if key in self._cache: token, expiration = self._cache[key];
\* if time.time() < expiration: return token.
GetCheck(t) ==
    /\ pc[t] = "gt_check"
    /\ IF loc[t].cache_key \notin DOMAIN cache
       THEN /\ loc' = [loc EXCEPT ![t].found = FALSE, ![t].result = PyNone,
                                  ![t].lookup = "absent"]
            /\ Goto(t, "gt_unlock")
       ELSE IF StillValid(now, cache[loc[t].cache_key].expiration)
       THEN /\ loc' = [loc EXCEPT ![t].found = TRUE,
                                  ![t].entry = cache[loc[t].cache_key],
                                  ![t].clock = now,
                                  ![t].result = cache[loc[t].cache_key].token,
                                  ![t].lookup = "valid",
                                  ![t].seen = cache[loc[t].cache_key].token]
            /\ Goto(t, "gt_unlock")
       ELSE /\ loc' = [loc EXCEPT ![t].found = TRUE,
                                  ![t].entry = cache[loc[t].cache_key],
                                  ![t].clock = now,
                                  ![t].lookup = "expired",
                                  ![t].old = cache[loc[t].cache_key]]
            /\ Goto(t, "gt_del")
    /\ UNCHANGED <<now, ticks, cache, lock, lru, session, calls, lastWrite>>

\* get_token's locals end with its frame; the resolver keeps the result.
EndGet(l) ==
    [l EXCEPT !.found = FALSE, !.entry = NoEntry, !.clock = 0,
              !.result = PyNone, !.cached_token = l.result]

\* lines 38-39: del self._cache[key]; return None.  Deleting a key that is
\* not in the dict raises KeyError.  The with statement releases the lock
\* either way, and line 70 sends the resolver on to generate a token.
GetDel(t) ==
    /\ pc[t] = "gt_del"
    /\ lock' = Released(t)
    /\ IF loc[t].cache_key \in DOMAIN cache
       THEN /\ cache' = CacheDel(cache, loc[t].cache_key)
            /\ loc' = [loc EXCEPT ![t] = EndGet(loc[t])]
            /\ Goto(t, "rc_lookup")
       ELSE /\ cache' = cache
            /\ Raise(t, "KeyError")
    /\ UNCHANGED <<now, ticks, lru, session, calls, lastWrite>>

GetUnlockKeepsLock(t) ==
    /\ pc[t] = "gt_unlock"
    /\ IF Truthy(loc[t].result)
       THEN /\ lock' = Released(t)
            /\ loc' = [loc EXCEPT ![t] =
                  [EndCall(EndGet(loc[t])) EXCEPT
                      !.params = DictWith(loc[t].params, "password", loc[t].result),
                      !.ret = DictWith(loc[t].params, "password", loc[t].result)]]
            /\ Goto(t, "returned")
       ELSE /\ lock' = lock
            /\ loc' = [loc EXCEPT ![t] = EndGet(loc[t])]
            /\ Goto(t, "rc_lookup")
    /\ UNCHANGED <<now, ticks, cache, lru, session, calls, lastWrite>>

\* get_token returns a value found at line 35 or 37 and the lock is
\* released; lines 69-72: the resolver tests the returned value and returns
\* the copy with the cached password.
GetUnlock(t) ==
    /\ pc[t] = "gt_unlock"
    /\ lock' = Released(t)
    /\ IF Truthy(loc[t].result)
       THEN /\ loc' = [loc EXCEPT ![t] =
                  [EndCall(EndGet(loc[t])) EXCEPT
                      !.params = DictWith(loc[t].params, "password", loc[t].result),
                      !.caller = CallerSees(loc[t].caller,
                          DictWith(loc[t].params, "password", loc[t].result)),
                      !.ret = DictWith(loc[t].params, "password", loc[t].result)]]
            /\ Goto(t, "returned")
       ELSE /\ loc' = [loc EXCEPT ![t] = EndGet(loc[t])]
            /\ Goto(t, "rc_lookup")
    /\ UNCHANGED <<now, ticks, cache, lru, session, calls, lastWrite>>

(***************************************************************************)
(* _get_rds_client(region_name), lines 20-24, behind lru_cache(maxsize=32).*)
(***************************************************************************)
SessionAlwaysNew(t, region_name) == [owner |-> t, region |-> region_name]
\* The session _get_session(region_name) returns to thread t (lines 16-18):
\* the thread's own one if it has one, else a new one for this region.
SessionFor(t, region_name) ==
    IF session[t].owner # NoThread
    THEN session[t]
    ELSE [owner |-> t, region |-> region_name]

\* The lru_cache wrapper looks the argument up.  A hit returns the stored
\* client and marks it most recently used.  A miss calls the function,
\* lines 23-24: session = _get_session(region_name); session.client(...).
\* Either construction may raise (sessOk, clientOk); a session once
\* constructed stays in the thread-local storage.  The function touches
\* only the calling thread's own storage, so it is one step with the miss.
ClientLookup(t, sessOk, clientOk) ==
    /\ pc[t] = "rc_lookup"
    /\ IF LruHas(lru, loc[t].region_name)
       THEN /\ loc' = [loc EXCEPT
                  ![t].rds_client = LruClient(lru, loc[t].region_name),
                  ![t].provider = @ + 1]
            /\ lru' = LruTouch(lru, loc[t].region_name)
            /\ session' = session
            /\ Goto(t, "generate")
       ELSE /\ lru' = lru
            /\ IF session[t].owner = NoThread /\ ~sessOk
               THEN /\ session' = session
                    /\ loc' = [loc EXCEPT ![t] =
                          [EndCall(loc[t]) EXCEPT !.provider = @ + 1,
                                                  !.err = "SessionError"]]
                    /\ Goto(t, "raised")
               ELSE /\ session' = [session EXCEPT
                          ![t] = SessionFor(t, loc[t].region_name)]
                    /\ IF clientOk
                       THEN /\ loc' = [loc EXCEPT
                                  ![t].rds_client =
                                      [session |-> SessionFor(t, loc[t].region_name),
                                       region |-> loc[t].region_name],
                                  ![t].provider = @ + 1]
                            /\ Goto(t, "rc_store")
                       ELSE /\ loc' = [loc EXCEPT ![t] =
                                  [EndCall(loc[t]) EXCEPT !.provider = @ + 1,
                                                          !.err = "ClientError"]]
                            /\ Goto(t, "raised")
    /\ UNCHANGED <<now, ticks, cache, lock, calls, lastWrite>>

\* The lru_cache wrapper stores the result, unless another thread stored one
\* for the same argument while the function ran; the least recently used
\* pair is dropped when the cache is full.
ClientStore(t) ==
    /\ pc[t] = "rc_store"
    /\ lru' = IF LruHas(lru, loc[t].region_name)
              THEN lru
              ELSE LruInsert(lru, loc[t].region_name, loc[t].rds_client)
    /\ Goto(t, "generate")
    /\ UNCHANGED <<now, ticks, cache, lock, session, loc, calls, lastWrite>>

GenerateRetry(t, tok, ok) ==
    /\ pc[t] = "generate"
    /\ IF ok
       THEN /\ loc' = [loc EXCEPT
                  ![t].token = tok, ![t].gens = @ + 1,
                  ![t].gen_args = <<loc[t].hostname, loc[t].port, loc[t].username>>]
            /\ Goto(t, "st_lock")
       ELSE IF loc[t].gens = 0
       THEN /\ loc' = [loc EXCEPT ![t].gens = @ + 1]
            /\ Goto(t, "generate")
       ELSE /\ loc' = [loc EXCEPT ![t] =
                  [EndCall(loc[t]) EXCEPT !.gens = @ + 1, !.err = "TokenError"]]
            /\ Goto(t, "raised")
    /\ UNCHANGED <<now, ticks, cache, lock, lru, session, calls, lastWrite>>

(***************************************************************************)
(* lines 76-80: rds_client.generate_db_auth_token(DBHostname=hostname,     *)
(* Port=port, DBUsername=username).  The service returns some string, or   *)
(* raises.                                                                 *)
(***************************************************************************)
Generate(t, tok, ok) ==
    /\ pc[t] = "generate"
    /\ IF ok
       THEN /\ loc' = [loc EXCEPT
                  ![t].token = tok, ![t].gens = @ + 1,
                  ![t].gen_args = <<loc[t].hostname, loc[t].port, loc[t].username>>]
            /\ Goto(t, "st_lock")
       ELSE /\ loc' = [loc EXCEPT ![t] =
                  [EndCall(loc[t]) EXCEPT
                      !.gens = @ + 1, !.err = "TokenError",
                      !.gen_args = <<loc[t].hostname, loc[t].port, loc[t].username>>]]
            /\ Goto(t, "raised")
    /\ UNCHANGED <<now, ticks, cache, lock, lru, session, calls, lastWrite>>

(***************************************************************************)
(* TokenCache.set_token, lines 41-44.                                      *)
(***************************************************************************)
\* line 43: with self._lock
SetLock(t) ==
    /\ pc[t] = "st_lock"
    /\ LockFree
    /\ lock' = t
    /\ Goto(t, "st_write")
    /\ UNCHANGED <<now, ticks, cache, lru, session, loc, calls, lastWrite>>

\* The entry set_token writes for the thread's token at the current time.
NewEntry(t) ==
    [token |-> loc[t].token, expiration |-> ExpirationAt(now),
     ident |-> <<loc[t].hostname, loc[t].port, loc[t].username,
                 loc[t].region_name>>]

\* line 44: self._cache[key] = (token, time.time() + TOKEN_EXPIRATION_TIME - 30),
\* and the lock is released; lines 84-86: the resolver sets the password to
\* the fresh token and returns the copy.
SetWrite(t) ==
    /\ pc[t] = "st_write"
    /\ cache' = CachePut(cache, loc[t].cache_key, NewEntry(t))
    /\ lastWrite' = [thread |-> t, key |-> loc[t].cache_key, entry |-> NewEntry(t)]
    /\ lock' = Released(t)
    /\ loc' = [loc EXCEPT ![t] =
          [EndCall(loc[t]) EXCEPT
              !.params = DictWith(loc[t].params, "password", loc[t].token),
              !.caller = CallerSees(loc[t].caller,
                  DictWith(loc[t].params, "password", loc[t].token)),
              !.stores = @ + 1,
              !.ret = DictWith(loc[t].params, "password", loc[t].token)]]
    /\ Goto(t, "returned")
    /\ UNCHANGED <<now, ticks, lru, session, calls>>

(***************************************************************************)
(* The clock: time passes between any two steps, by one second or by one   *)
(* second less than the lifetime of a cache entry.  Only differences of    *)
(* times matter, so the clock starts with the first call.                  *)
(***************************************************************************)
TickSteps == {1, TOKEN_EXPIRATION_TIME - SAFETY_BUFFER - 1}

Tick(d) ==
    /\ ticks < MaxTicks
    /\ calls > 0
    /\ ticks' = ticks + 1
    /\ now' = now + d
    /\ UNCHANGED <<cache, lock, lru, session, pc, loc, calls, lastWrite>>

(***************************************************************************)
(* Inputs.                                                                 *)
(***************************************************************************)
\* The strings generate_db_auth_token may return.
Tokens == {PyStr(""), PyStr("tokA"), PyStr("tokB")}

\* The mapping concurrent callers pass: the threads of one process connect
\* with the same settings.
Scenario ==
    [use_iam_auth |-> PyBool(TRUE), host |-> PyStr("db.example.com"),
     port |-> PyInt(5432), user |-> PyStr("svc"),
     region_name |-> PyStr("us-east-1")]

ConcInputs == { Scenario }

\* The mappings of a caller that connects to several databases: Scenario,
\* Scenario with one field of its identity changed or left out, and
\* Scenario with IAM authentication switched off.
IdentInputs ==
    { Scenario,
      [Scenario EXCEPT !.port = PyInt(5433)],
      [Scenario EXCEPT !.user = PyStr("app")],
      DictWithout(Scenario, "region_name"),
      [Scenario EXCEPT !.use_iam_auth = PyBool(FALSE)] }

\* The mappings a single caller passes: for each key, absent or one of a
\* few values.
Absent == [ty |-> "absent", s |-> "", n |-> 0]
DictOf(choice) ==
    [k \in {x \in DOMAIN choice : choice[x] # Absent} |-> choice[k]]

WideInputs ==
    { DictOf(c) : c \in
        [use_iam_auth : {Absent, PyBool(TRUE), PyBool(FALSE), PyNone,
                         PyInt(0), PyInt(1), PyStr("")},
         region_name : {Absent, PyStr("us-east-1")},
         host : {Absent, PyStr("db.example.com")},
         port : {Absent, PyInt(5433)},
         user : {Absent, PyStr(""), PyStr("svc")},
         password : {Absent, PyStr("old")},
         dbname : {Absent, PyStr("app")}] }

\* A connection layer passes the same settings again on every reconnect.
SeqInputs == IF calls = 0 THEN WideInputs ELSE {loc[1].arg}

Step(t, inputs) ==
    \/ \E p \in inputs : Call(t, p)
    \/ GetLock(t)
    \/ GetCheck(t)
    \/ GetDel(t)
    \/ GetUnlock(t)
    \/ \E sessOk \in BOOLEAN, clientOk \in BOOLEAN : ClientLookup(t, sessOk, clientOk)
    \/ ClientStore(t)
    \/ \E tok \in Tokens, ok \in BOOLEAN : Generate(t, tok, ok)
    \/ SetLock(t)
    \/ SetWrite(t)

\* Threads call the resolver concurrently.
Next ==
    \/ \E t \in Threads : Step(t, ConcInputs) /\ UNCHANGED <<genAt, bornAt>>
    \/ \E d \in TickSteps : Tick(d) /\ UNCHANGED <<genAt, bornAt>>

Spec == Init /\ [][Next]_vars

\* One thread calls the resolver, with any mapping.
NextSeq ==
    \/ Step(1, SeqInputs) /\ UNCHANGED <<genAt, bornAt>>
    \/ \E d \in TickSteps : Tick(d) /\ UNCHANGED <<genAt, bornAt>>

SpecSeq == Init /\ [][NextSeq]_vars

\* One thread calls the resolver for several identities.
NextIdent ==
    \/ Step(1, IdentInputs) /\ UNCHANGED <<genAt, bornAt>>
    \/ \E d \in TickSteps : Tick(d) /\ UNCHANGED <<genAt, bornAt>>

SpecIdent == Init /\ [][NextIdent]_vars

\* The step of thread t seen by an observer who notes the time at which
\* generate_db_auth_token returns a token, and, for every cache entry, the
\* time at which its token was generated.
Observe(t) ==
    /\ genAt' = IF pc[t] = "generate" /\ pc'[t] = "st_lock"
                THEN [genAt EXCEPT ![t] = now]
                ELSE genAt
    /\ bornAt' = [k \in DOMAIN cache' |->
                     IF pc[t] = "st_write" /\ k = loc[t].cache_key
                     THEN genAt[t]
                     ELSE bornAt[k]]

\* One thread reconnects with the same settings, with the generation times
\* of its tokens observed.
NextAge ==
    \/ Step(1, ConcInputs) /\ Observe(1)
    \/ \E d \in TickSteps : Tick(d) /\ UNCHANGED <<genAt, bornAt>>

SpecAge == Init /\ [][NextAge]_vars

\* The steps of thread t inside a call of the resolver, with one token
\* string: where a call goes next does not depend on which non-empty string
\* the service returns, and an empty one sends the call the way of a miss.
Progress(t) ==
    \/ GetLock(t)
    \/ GetCheck(t)
    \/ GetDel(t)
    \/ GetUnlock(t)
    \/ \E sessOk \in BOOLEAN, clientOk \in BOOLEAN : ClientLookup(t, sessOk, clientOk)
    \/ ClientStore(t)
    \/ \E ok \in BOOLEAN : Generate(t, PyStr("tokA"), ok)
    \/ SetLock(t)
    \/ SetWrite(t)

\* Concurrent callers, the clock advancing by the lifetime of an entry.
NextFair ==
    \/ \E t \in Threads :
           (Call(t, Scenario) \/ Progress(t)) /\ UNCHANGED <<genAt, bornAt>>
    \/ Tick(TOKEN_EXPIRATION_TIME - SAFETY_BUFFER) /\ UNCHANGED <<genAt, bornAt>>

\* Concurrent callers under a fair scheduler: a thread that can take a step
\* inside its call eventually takes one.  That covers a thread runnable in
\* Python code, an external call (it eventually returns or raises), and a
\* thread blocked on the lock once the lock stays free.
SpecFair ==
    /\ Init
    /\ [][NextFair]_vars
    /\ \A t \in Threads : WF_vars(Progress(t) /\ UNCHANGED <<genAt, bornAt>>)

(***************************************************************************)
(* Properties.                                                             *)
(***************************************************************************)
\* The falsy values a mapping may hold.
Falsy == {PyBool(FALSE), PyNone, PyInt(0), PyStr("")}

\* use_iam_auth is absent or falsy in the mapping p.
FlagOff(p) == "use_iam_auth" \notin DOMAIN p \/ p["use_iam_auth"] \in Falsy

\* The value of key k in p, or d when p has no key k.
ValueOr(p, k, d) == IF k \in DOMAIN p THEN p[k] ELSE d

\* The threads inside the body of get_token or set_token.
InBody(t) == pc[t] \in {"gt_check", "gt_del", "gt_unlock", "st_write"}

\* C1: a resolution whose cache lookup finds an unexpired entry (T, expiry)
\* for its identity never invokes generate_db_auth_token, and returns
\* password = T; T is any string, the empty one included.
C1_HitAvoidsRegeneration ==
    \A t \in Threads :
        loc[t].lookup = "valid" =>
            /\ loc[t].gens = 0
            /\ pc[t] = "returned" =>
                   /\ "password" \in DOMAIN loc[t].ret
                   /\ loc[t].ret["password"] = loc[t].seen

\* C2: get_token returns a token only when an entry for the key is present
\* and the clock it read is strictly before the entry's expiration, and the
\* token is that entry's; with the clock at or after the expiration it
\* returns None, as it does when no entry is present.
C2_NoExpiredTokenServed ==
    \A t \in Threads :
        /\ loc[t].clock <= now
        /\ pc[t] = "gt_unlock" =>
               /\ loc[t].result # PyNone =>
                      /\ loc[t].found
                      /\ loc[t].clock < loc[t].entry.expiration
                      /\ loc[t].result = loc[t].entry.token
                      /\ loc[t].cache_key \in DOMAIN cache
                      /\ cache[loc[t].cache_key] = loc[t].entry
               /\ loc[t].result = PyNone => ~loc[t].found
        /\ pc[t] = "gt_del" =>
               /\ loc[t].found
               /\ loc[t].clock >= loc[t].entry.expiration
               /\ loc[t].result = PyNone

\* C2's case: the clock read equals the expiration and None is returned.
C2_Witness ==
    \E t \in Threads :
        /\ pc[t] = "gt_del"
        /\ loc[t].clock = loc[t].entry.expiration
        /\ loc[t].result = PyNone

\* C3: a resolution whose cache lookup finds an expired entry invokes
\* generate_db_auth_token exactly once before it stores and returns, returns
\* the generated token as password, and once it has deleted the old pair
\* every entry the cache holds for the identity expires later than the old
\* pair did; while its own write is the latest and unexpired, the cache
\* holds exactly that write.
C3_ExpiryTriggersRegeneration ==
    \A t \in Threads :
        loc[t].lookup = "expired" =>
            /\ loc[t].gens <= 1
            /\ pc[t] \in {"st_lock", "st_write", "returned"} => loc[t].gens = 1
            /\ pc[t] = "returned" =>
                   /\ "password" \in DOMAIN loc[t].ret
                   /\ loc[t].ret["password"] = loc[t].token
            /\ (pc[t] # "gt_del" /\ loc[t].cache_key \in DOMAIN cache) =>
                   cache[loc[t].cache_key].expiration > loc[t].old.expiration
            /\ (pc[t] = "returned" /\ lastWrite.thread = t
                    /\ now < lastWrite.entry.expiration) =>
                   /\ loc[t].cache_key \in DOMAIN cache
                   /\ cache[loc[t].cache_key].token = loc[t].token
                   /\ cache[loc[t].cache_key] = lastWrite.entry

\* C3's case: a resolution found an expired entry, generated another token
\* and returned it, and the cache holds the new token.
C3_Witness ==
    \E t \in Threads :
        /\ loc[t].lookup = "expired"
        /\ pc[t] = "returned"
        /\ loc[t].gens = 1
        /\ loc[t].token # loc[t].old.token
        /\ loc[t].ret["password"] = loc[t].token
        /\ loc[t].cache_key \in DOMAIN cache
        /\ cache[loc[t].cache_key].token = loc[t].token

\* C4: at most one thread is inside the body of get_token or set_token, and
\* it holds the lock; the pair a thread read inside get_token is still the
\* cache's pair for its key until the thread deletes it or leaves, and it is
\* a pair stored under that key.
C4_MutualExclusion ==
    /\ \A t \in Threads : InBody(t) => lock = t
    /\ \A t1, t2 \in Threads : (InBody(t1) /\ InBody(t2)) => t1 = t2
    /\ lock # NoThread => InBody(lock)
    /\ \A t \in Threads :
           (pc[t] \in {"gt_del", "gt_unlock"} /\ loc[t].found) =>
               /\ loc[t].cache_key \in DOMAIN cache
               /\ cache[loc[t].cache_key] = loc[t].entry
               /\ loc[t].entry.ident = loc[t].cache_key

\* C4's case: one thread is inside a body while another waits for the lock.
C4_Witness ==
    \E t1, t2 \in Threads :
        /\ t1 # t2
        /\ pc[t1] = "st_write"
        /\ lock = t1
        /\ pc[t2] \in {"gt_lock", "st_lock"}

\* C5: a resolution that generated a token returns that token as password,
\* whatever other threads stored meanwhile; and the cache entry of the key
\* written last is the pair of that last write, present as long as it has
\* not expired.
C5_LastSetWins ==
    /\ \A t \in Threads :
           (pc[t] = "returned" /\ loc[t].gens = 1) =>
               /\ "password" \in DOMAIN loc[t].ret
               /\ loc[t].ret["password"] = loc[t].token
    /\ lastWrite.thread # NoThread =>
           /\ lastWrite.key \in DOMAIN cache =>
                  cache[lastWrite.key] = lastWrite.entry
           /\ now < lastWrite.entry.expiration => lastWrite.key \in DOMAIN cache

\* C5's case: two threads both missed for the same identity with no entry
\* present, generated different tokens and returned them; the cache holds
\* the token of the one that wrote last.
C5_Witness ==
    \E t1, t2 \in Threads :
        /\ t1 # t2
        /\ pc[t1] = "returned" /\ pc[t2] = "returned"
        /\ loc[t1].lookup = "absent" /\ loc[t2].lookup = "absent"
        /\ loc[t1].gens = 1 /\ loc[t2].gens = 1
        /\ loc[t1].cache_key = loc[t2].cache_key
        /\ loc[t1].token # loc[t2].token
        /\ loc[t1].ret["password"] = loc[t1].token
        /\ loc[t2].ret["password"] = loc[t2].token
        /\ lastWrite.thread = t2
        /\ loc[t2].cache_key \in DOMAIN cache
        /\ cache[loc[t2].cache_key].token = loc[t2].token

\* C6: the client handle _get_rds_client returns to a thread was created
\* from that thread's own session.
C6_ClientFromOwnSession ==
    \A t \in Threads :
        loc[t].rds_client # NoClient => loc[t].rds_client.session.owner = t

\* The identity of an enabled mapping p, read off the mapping: each field is
\* the mapping's value, or the default when the key is absent (for the user
\* also when the value is falsy).
IdentityOf(p) ==
    << ValueOr(p, "host", PyStr("localhost")),
       ValueOr(p, "port", PyInt(5432)),
       IF "user" \in DOMAIN p /\ p["user"] \notin Falsy
       THEN p["user"] ELSE OS_USER,
       ValueOr(p, "region_name", PyNone) >>

\* C7: every cache entry is filed under the identity (hostname, port,
\* username, region) its token was generated for, and a token get_token
\* serves to a resolution was generated for that resolution's identity: no
\* token crosses between identities that differ in a field.
C7_IdentityDiscrimination ==
    /\ \A k \in DOMAIN cache : cache[k].ident = k
    /\ \A t \in Threads :
           loc[t].found =>
               /\ loc[t].entry.ident = IdentityOf(loc[t].arg)
               /\ (pc[t] = "gt_unlock" /\ loc[t].result # PyNone) =>
                      loc[t].result = loc[t].entry.token

\* C7's case: a resolution looks up its identity and finds nothing while the
\* cache holds an unexpired token for the identity that differs only in
\* the port.
C7_Witness ==
    \E t \in Threads :
        /\ pc[t] = "gt_unlock"
        /\ loc[t].lookup = "absent"
        /\ \E k \in DOMAIN cache :
               /\ k # loc[t].cache_key
               /\ k[1] = loc[t].cache_key[1]
               /\ k[3] = loc[t].cache_key[3]
               /\ k[4] = loc[t].cache_key[4]
               /\ now < cache[k].expiration

\* C8: with use_iam_auth absent or falsy the call returns at once the
\* mapping without that key and with every other key and value as given;
\* it enters neither get_token nor _get_rds_client nor
\* generate_db_auth_token, and a caller that passes only such mappings
\* leaves the token cache, the lock, the client cache and the session as
\* they were at the start.
C8_Passthrough ==
    \A t \in Threads :
        (pc[t] # "idle" /\ FlagOff(loc[t].arg)) =>
            /\ pc[t] = "returned"
            /\ loc[t].ret =
                   [k \in DOMAIN loc[t].arg \ {"use_iam_auth"} |-> loc[t].arg[k]]
            /\ loc[t].lookups = 0 /\ loc[t].provider = 0 /\ loc[t].gens = 0
            /\ DOMAIN cache = {}
            /\ lock = NoThread
            /\ lru = << >>
            /\ session[t] = NoSession

\* C8's case: a mapping with a falsy flag that is not False, a region and a
\* password was passed through.
C8_Witness ==
    \E t \in Threads :
        /\ pc[t] = "returned"
        /\ "use_iam_auth" \in DOMAIN loc[t].arg
        /\ loc[t].arg["use_iam_auth"] = PyInt(0)
        /\ "region_name" \in DOMAIN loc[t].ret
        /\ "password" \in DOMAIN loc[t].ret
        /\ loc[t].ret["password"] = PyStr("old")
        /\ "use_iam_auth" \notin DOMAIN loc[t].ret

\* C9: with a truthy use_iam_auth a call that returns gives a mapping whose
\* keys are the input's without use_iam_auth and region_name, plus
\* password; password is the token seen in the cache when the call
\* generated none, else the generated token; every other key has the
\* input's value.
C9_OutputShape ==
    \A t \in Threads :
        (pc[t] = "returned" /\ ~FlagOff(loc[t].arg)) =>
            /\ DOMAIN loc[t].ret =
                   (DOMAIN loc[t].arg \ {"use_iam_auth", "region_name"})
                       \cup {"password"}
            /\ \A k \in DOMAIN loc[t].ret \ {"password"} :
                   loc[t].ret[k] = loc[t].arg[k]
            /\ loc[t].gens = 0 => loc[t].lookup = "valid"
            /\ loc[t].ret["password"] =
                   IF loc[t].gens = 0 THEN loc[t].seen ELSE loc[t].token

\* C9's case: a cached token replaced the input's password, region_name was
\* removed, and the defaulted host was not inserted.
C9_Witness ==
    \E t \in Threads :
        /\ pc[t] = "returned"
        /\ ~FlagOff(loc[t].arg)
        /\ loc[t].gens = 0
        /\ "password" \in DOMAIN loc[t].arg
        /\ "region_name" \in DOMAIN loc[t].arg
        /\ "host" \notin DOMAIN loc[t].arg
        /\ "host" \notin DOMAIN loc[t].ret
        /\ "dbname" \in DOMAIN loc[t].ret
        /\ loc[t].ret["password"] = PyStr("tokA")

\* C10 as stated: the identity of the cache key and the arguments of the
\* generation call are the mapping's host, port, user and region_name where
\* the key is present, and "localhost", 5432, the OS user and None where it
\* is absent.
C10_DefaultsWhenAbsent ==
    \A t \in Threads :
        (pc[t] # "idle" /\ ~FlagOff(loc[t].arg)) =>
            LET p == loc[t].arg
                ident == << ValueOr(p, "host", PyStr("localhost")),
                            ValueOr(p, "port", PyInt(5432)),
                            ValueOr(p, "user", OS_USER),
                            ValueOr(p, "region_name", PyNone) >>
            IN  /\ loc[t].cache_key = ident
                /\ loc[t].gens > 0 =>
                       loc[t].gen_args = <<ident[1], ident[2], ident[3]>>

\* C10, amended: as stated, except that the username is the user parameter
\* only when it is present and truthy; an absent or falsy user (such as "")
\* gives the OS user.
C10_DefaultsWhenAbsentOrFalsy ==
    \A t \in Threads :
        (pc[t] # "idle" /\ ~FlagOff(loc[t].arg)) =>
            LET ident == IdentityOf(loc[t].arg)
            IN  /\ loc[t].cache_key = ident
                /\ loc[t].gens > 0 =>
                       loc[t].gen_args = <<ident[1], ident[2], ident[3]>>

\* C10's case: the mapping {use_iam_auth: True} reached the generation call
\* with the identity ("localhost", 5432, OS user, None).
C10_Witness ==
    \E t \in Threads :
        /\ loc[t].arg = [use_iam_auth |-> PyBool(TRUE)]
        /\ loc[t].gens = 1
        /\ loc[t].cache_key =
               <<PyStr("localhost"), PyInt(5432), OS_USER, PyNone>>
        /\ loc[t].gen_args = <<PyStr("localhost"), PyInt(5432), OS_USER>>

\* The state part of C11: a call that ended in an error returned no mapping,
\* entered the client provider once and token generation at most once, wrote
\* nothing to the token cache, and left no session behind when the session
\* could not be constructed; the client cache holds only clients that were
\* created.
FailureLeavesNothing ==
    /\ \A t \in Threads :
           pc[t] = "raised" =>
               /\ loc[t].err \in {"SessionError", "ClientError", "TokenError"}
               /\ loc[t].ret = EmptyDict
               /\ loc[t].token = PyNone
               /\ loc[t].provider = 1
               /\ loc[t].gens <= 1
               /\ loc[t].gens = 1 <=> loc[t].err = "TokenError"
               /\ loc[t].stores = 0
               /\ loc[t].err = "SessionError" => session[t] = NoSession
    /\ \A i \in 1..Len(lru) :
           /\ lru[i].client # NoClient
           /\ lru[i].client.session.owner # NoThread

\* The step part of C11: the step in which a call ends in an error changes
\* neither the token cache nor the client cache.
FailureStoresNothing ==
    \A t \in Threads :
        (pc[t] # "raised" /\ pc'[t] = "raised") =>
            /\ cache' = cache
            /\ lru' = lru
            /\ lastWrite' = lastWrite

\* C11: when session construction, client construction or
\* generate_db_auth_token fails, the call ends in that error without a
\* mapping, after at most one generation attempt; it stores no token cache
\* entry and no client, and a failed session construction leaves the thread
\* without a session, so that a later resolution starts over.
C11_FailuresPropagate ==
    [](FailureLeavesNothing) /\ [][FailureStoresNothing]_vars

\* C11's case: token generation failed after an expired entry was evicted,
\* and the cache holds no entry for the identity.
C11_Witness ==
    \E t \in Threads :
        /\ pc[t] = "raised"
        /\ loc[t].err = "TokenError"
        /\ loc[t].gens = 1
        /\ loc[t].lookup = "expired"
        /\ loc[t].cache_key \notin DOMAIN cache
        /\ LruHas(lru, loc[t].region_name)

\* The first step part of C12: the step that leaves set_token's body puts
\* under the caller's key the pair of the caller's token and the current
\* time plus 570, whether or not the key had an entry, and keeps every other
\* entry.
SetStoresPair ==
    \A t \in Threads :
        (pc[t] = "st_write" /\ pc'[t] # "st_write") =>
            /\ DOMAIN cache' = DOMAIN cache \cup {loc[t].cache_key}
            /\ cache'[loc[t].cache_key].token = loc[t].token
            /\ cache'[loc[t].cache_key].expiration = now + 570
            /\ \A k \in DOMAIN cache \ {loc[t].cache_key} : cache'[k] = cache[k]

\* The second step part of C12: an entry appears or changes only in such a
\* step of a thread whose key is the entry's.
OnlySetWrites ==
    \A k \in DOMAIN cache' :
        (k \notin DOMAIN cache \/ cache'[k] # cache[k]) =>
            \E t \in Threads :
                /\ pc[t] = "st_write" /\ pc'[t] # "st_write"
                /\ loc[t].cache_key = k

C13_GenerationIffMiss ==
    \A t \in Threads :
        /\ loc[t].lookup = "valid" =>
               /\ loc[t].provider = 0
               /\ loc[t].gens = 0
               /\ loc[t].stores = 0
               /\ pc[t] \in {"gt_unlock", "returned"}
        /\ (loc[t].lookup \in {"absent", "expired"} /\ pc[t] = "returned") =>
               /\ loc[t].provider = 1
               /\ loc[t].gens = 1
        /\ loc[t].provider > 0 => loc[t].lookup \in {"absent", "expired"}

\* Thread t is inside a call of get_token.
InGetToken(t) == pc[t] \in {"gt_lock", "gt_check", "gt_del", "gt_unlock"}

\* This step is the return of None from thread t's call of get_token.
ReturnsAbsent(t) ==
    \/ pc[t] = "gt_del" /\ pc'[t] # "gt_del"
    \/ pc[t] = "gt_unlock" /\ loc[t].result = PyNone /\ pc'[t] # "gt_unlock"

\* The steps of get_token: the return of None leaves no entry under the
\* call's key, and no step of the call touches the entry of another key.
GetTokenEvictsOwnKey ==
    \A t \in Threads :
        /\ ReturnsAbsent(t) => loc[t].cache_key \notin DOMAIN cache'
        /\ (InGetToken(t) /\ pc'[t] # pc[t]) =>
               /\ DOMAIN cache' \ {loc[t].cache_key}
                      = DOMAIN cache \ {loc[t].cache_key}
               /\ \A k \in DOMAIN cache \ {loc[t].cache_key} :
                      cache'[k] = cache[k]
               /\ DOMAIN cache' \subseteq DOMAIN cache

\* An entry leaves the mapping only in the step of get_token that deletes
\* it as expired.
OnlyGetTokenEvicts ==
    \A k \in DOMAIN cache \ DOMAIN cache' :
        \E t \in Threads :
            /\ pc[t] = "gt_del" /\ pc'[t] # "gt_del"
            /\ loc[t].cache_key = k
            /\ cache[k].expiration <= loc[t].clock
            /\ loc[t].clock <= now

\* C14: when get_token(key) returns None the mapping holds no entry for key
\* at the return; get_token never adds, removes or changes the entry of
\* another key, expired or not; and entries leave the mapping in no other
\* way than this eviction.
C14_EvictionExact ==
    [][GetTokenEvictsOwnKey /\ OnlyGetTokenEvicts]_vars

\* C14's case: get_token found an expired entry for the key and returned
\* None, and the mapping has no entry for the key.
C14_Witness ==
    \E t \in Threads :
        /\ pc[t] = "rc_lookup"
        /\ loc[t].lookup = "expired"
        /\ loc[t].old.expiration <= now
        /\ loc[t].old.ident = loc[t].cache_key
        /\ loc[t].cache_key \notin DOMAIN cache

\* The step part of C15: a thread's session changes only when the thread
\* has none, in the step in which its call of _get_rds_client misses the
\* client cache, and becomes the thread's session for the region requested
\* then.
SessionCreatedOnce ==
    \A t \in Threads :
        session'[t] # session[t] =>
            /\ session[t] = NoSession
            /\ pc[t] = "rc_lookup"
            /\ ~LruHas(lru, loc[t].region_name)
            /\ loc[t].lookup \in {"absent", "expired"}
            /\ session'[t] = [owner |-> t, region |-> loc[t].region_name]

\* The state part of C15: every client a thread created, in use or cached,
\* was created from the session the thread still has.
ClientsUseTheSession ==
    /\ \A t \in Threads : session[t] # NoSession => session[t].owner = t
    /\ \A t \in Threads :
           loc[t].rds_client # NoClient =>
               loc[t].rds_client.session
                   = session[loc[t].rds_client.session.owner]
    /\ \A i \in 1..Len(lru) :
           lru[i].client.session = session[lru[i].client.session.owner]

\* C15: each thread constructs a session at most once, at its first client
\* creation and in no other step (none on passthrough or on a cache hit);
\* every later client creation of the thread uses that session, whatever
\* region it asks for, and the session keeps the region of the first
\* request.
C15_OneSessionPerThread ==
    [](ClientsUseTheSession) /\ [][SessionCreatedOnce]_vars

\* C15's case: a thread that has a session constructed for "us-east-1"
\* created a client for a request without region from that same session.
C15_Witness ==
    \E t \in Threads :
        /\ pc[t] = "rc_store"
        /\ loc[t].region_name = PyNone
        /\ loc[t].rds_client.region = PyNone
        /\ loc[t].rds_client.session = session[t]
        /\ session[t] = [owner |-> t, region |-> PyStr("us-east-1")]

\* C16: on every path of get_aws_connection_params (passthrough, cache hit,
\* cache miss, failure of client creation or of token generation) the
\* mapping the caller passed has, during and after the call, the keys and
\* values it was passed with; the pops and the password go to the copy.
C16_CallerMappingUntouched ==
    \A t \in Threads :
        pc[t] # "idle" =>
            /\ loc[t].caller = loc[t].arg
            /\ (pc[t] = "returned" /\ ~FlagOff(loc[t].arg)) =>
                   /\ "use_iam_auth" \in DOMAIN loc[t].caller
                   /\ "use_iam_auth" \notin DOMAIN loc[t].ret
                   /\ "password" \in DOMAIN loc[t].ret

\* C16's case: a cache miss returned a copy with a generated password and
\* without use_iam_auth and region_name, while the caller's mapping has
\* both keys and its old password.
C16_Witness ==
    \E t \in Threads :
        /\ pc[t] = "returned"
        /\ loc[t].stores = 1
        /\ "use_iam_auth" \in DOMAIN loc[t].caller
        /\ "region_name" \in DOMAIN loc[t].caller
        /\ "password" \in DOMAIN loc[t].caller
        /\ loc[t].caller["password"] = PyStr("old")
        /\ loc[t].ret["password"] = PyStr("tokB")
        /\ "region_name" \notin DOMAIN loc[t].ret
        /\ "use_iam_auth" \notin DOMAIN loc[t].ret

\* C17: a thread inside _get_rds_client or generate_db_auth_token does not
\* hold the TokenCache lock; the lock is held only inside the bodies of
\* get_token and set_token, so other threads can take it meanwhile.
C17_NoLockAcrossGeneration ==
    \A t \in Threads :
        /\ pc[t] \in {"rc_lookup", "rc_store", "generate"} => lock # t
        /\ pc[t] \in {"idle", "returned", "raised", "gt_lock", "st_lock"} =>
               lock # t

\* C17's case: one thread is inside generate_db_auth_token while another
\* thread holds the lock inside set_token.
C17_Witness ==
    \E t1, t2 \in Threads :
        /\ t1 # t2
        /\ pc[t1] = "generate"
        /\ pc[t2] = "st_write"
        /\ lock = t2

\* The step part of C18: the step in which a thread leaves the body of
\* get_token or set_token, by whichever exit, releases the lock the thread
\* held; the step in which a thread enters a body takes the free lock.
BodyExitReleases ==
    \A t \in Threads :
        /\ (InBody(t) /\ pc'[t] \notin {"gt_check", "gt_del", "gt_unlock", "st_write"}) =>
               lock = t /\ lock' = NoThread
        /\ (pc[t] \in {"gt_lock", "st_lock"} /\ pc'[t] # pc[t]) =>
               lock = NoThread /\ lock' = t

\* Thread t is inside a call of get_aws_connection_params.
InCall(t) == pc[t] \notin {"idle", "returned", "raised"}

\* C18: every exit of get_token (valid hit, eviction, absent) and of
\* set_token releases the lock, a thread that waits for the lock does not
\* hold it, and under fair scheduling, with external calls that return or
\* raise, every call of get_aws_connection_params ends with a mapping or in
\* an error.
C18_DeadlockFreedom ==
    /\ [](\A t \in Threads : pc[t] \in {"gt_lock", "st_lock"} => lock # t)
    /\ [][BodyExitReleases]_vars
    /\ \A t \in Threads : InCall(t) ~> (pc[t] \in {"returned", "raised"})

\* C18's case: all calls have been made and have ended, one with a mapping
\* after evicting an expired entry and storing a token; the lock is free.
C18_Witness ==
    /\ calls = MaxCalls
    /\ lock = NoThread
    /\ \A t \in Threads : pc[t] \in {"returned", "raised"}
    /\ \E t \in Threads :
           /\ pc[t] = "returned"
           /\ loc[t].lookup = "expired"
           /\ loc[t].stores = 1

\* C19: every cache entry expires at most 570 seconds after the time at
\* which generate_db_auth_token returned its token, so a token that
\* get_token serves was generated at most 570 seconds before the clock read
\* at which it is served.
C19_ServedTokenAge ==
    /\ \A k \in DOMAIN cache : cache[k].expiration <= bornAt[k] + 570
    /\ \A t \in Threads :
           (pc[t] = "gt_unlock" /\ loc[t].result # PyNone) =>
               loc[t].clock - bornAt[loc[t].cache_key] <= 570
=============================================================================
